---- MODULE Spec2Model ----
(***************************************************************************)
(* podStation PWA: the local store (OfflineStorageHandler.ts, on Dexie /    *)
(* IndexedDB) and the podcasts controller (PodcastsControllerImplementation)*)
(* as a state machine.  Every await of the controller is a step boundary;   *)
(* every Dexie call is one store transaction.                               *)
(***************************************************************************)
EXTENDS Integers, Sequences, FiniteSets, TLC

\* ---------------------------------------------------------------- bounds
NumFeeds == 2        \* feed URLs the user may subscribe to
MaxRemoteId == 3     \* directory-service episode ids per feed
MaxVer == 1          \* changes of the remote directory's content
NumAdds == 2         \* calls of addPodcast (alone or inside addPodcasts)
NumUpdates == 2      \* calls of updatePodcasts
NumDeletes == 1      \* calls of deletePodcastById
MaxClock == 1        \* calls of updateEpisodeCurrentTime (ticks of new Date())
MaxPosition == 0     \* playback positions 0..MaxPosition
MaxCalls == 4        \* calls in one run of the concurrent client
MaxSeqCalls == 5     \* calls in one run of the sequential client
MaxFairCalls == 3    \* calls in one run of the fair event loop
MaxStored == 3       \* episodes in the store the querying client opens
MaxCount == 2        \* the count argument of getAllEpisodes: 0..MaxCount

FeedUrls == 1..NumFeeds
RemoteIds == 1..MaxRemoteId
AddTasks == 1..NumAdds
UpdTasks == 1..NumUpdates
DelTasks == 1..NumDeletes

\* An optional field that is absent reads as undefined.
Undefined == -1

VARIABLES
    podcasts,      \* db.podcasts: primary key -> record
    episodes,      \* db.episodes: primary key -> record
    podcastSeq,    \* key generator of db.podcasts (++id)
    episodeSeq,    \* key generator of db.episodes (++id)
    pendingPuts,   \* bulkPut transactions created and not yet run (nobody awaits them)
    remote,        \* the directory service: [ver, eps]
    clock,         \* new Date()
    adds,          \* addPodcast calls
    batch,         \* the addPodcast calls launched by addPodcasts
    upds,          \* updatePodcasts calls
    dels,          \* deletePodcastById calls
    hist,          \* history of the sequential client (read by no action)
    answer         \* the latest call of the querying client, and what it resolved with

vars == <<podcasts, episodes, podcastSeq, episodeSeq, pendingPuts, remote, clock,
          adds, batch, upds, dels, hist, answer>>

\* ------------------------------------------------------- records, helpers
\* rec.k of a JavaScript object: undefined when the property is absent.
Get(rec, k) == IF k \in DOMAIN rec THEN rec[k] ELSE Undefined

\* {...a, ...b}: a shallow overlay, b's properties win.
Spread(a, b) ==
    [k \in (DOMAIN a) \cup (DOMAIN b) |-> IF k \in DOMAIN b THEN b[k] ELSE a[k]]

Max(S) == CHOOSE x \in S : \A y \in S : y <= x

RECURSIVE SetToSeqDesc(_)
SetToSeqDesc(S) ==
    IF S = {} THEN <<>> ELSE <<Max(S)>> \o SetToSeqDesc(S \ {Max(S)})

Range(s) == {s[i] : i \in 1..Len(s)}

\* ------------------------------------------------- the directory service
\* getPodcastByFeedUrl: the canonical metadata (title, description, link,
\* imageUrl, id, value) as one stamp, the directory's content version.
RemotePodcast(f) == [title |-> remote.ver]

\* getEpisodes: the feed's episodes, newest first.  pubDate grows with the
\* directory id, the metadata are stamped with the content version.
RemoteEpisode(e) == [id |-> e, title |-> remote.ver, pubDate |-> e]

RemoteEpisodes(f) ==
    LET ids == SetToSeqDesc(remote.eps[f])
    IN  [i \in 1..Len(ids) |-> RemoteEpisode(ids[i])]

\* --------------------------------------------------------- the local store
\* podcasts: '++id, &feedUrl, ...': add fails on a stored feedUrl.
FeedUrlStored(table, f) == \E id \in DOMAIN table : table[id].feedUrl = f

\* Table.add with an auto-incremented inbound key.
TableAdd(table, seq, rec) ==
    [table |-> [id \in (DOMAIN table) \cup {seq + 1} |->
                    IF id = seq + 1 THEN Spread(rec, [id |-> seq + 1]) ELSE table[id]],
     seq |-> seq + 1]

\* A put that adds in every case (the key of the record is ignored).
TablePutAsNew(table, seq, rec) == TableAdd(table, seq, rec)

\* Table.put: replaces the record under rec.id wholesale, or adds it.
TablePut(table, seq, rec) ==
    IF "id" \in DOMAIN rec
    THEN [table |-> [id \in (DOMAIN table) \cup {rec.id} |->
                        IF id = rec.id THEN rec ELSE table[id]],
          seq |-> IF rec.id > seq THEN rec.id ELSE seq]
    ELSE TableAdd(table, seq, rec)

\* Table.bulkPut: put of every element, in order, in one transaction.
RECURSIVE TableBulkPut(_, _, _)
TableBulkPut(table, seq, recs) ==
    IF recs = <<>> THEN [table |-> table, seq |-> seq]
    ELSE LET one == TablePut(table, seq, Head(recs))
         IN  TableBulkPut(one.table, one.seq, Tail(recs))

\* An update that stores the changes as a record when there is none (an upsert).
TableUpsert(table, key, changes) ==
    [id \in (DOMAIN table) \cup {key} |->
        IF id \in DOMAIN table
        THEN (IF id = key THEN Spread(table[id], changes) ELSE table[id])
        ELSE changes]

\* Table.update(key, changes): modifies the record under key; no record, no effect.
TableUpdate(table, key, changes) ==
    IF key \in DOMAIN table
    THEN [table EXCEPT ![key] = Spread(@, changes)]
    ELSE table

\* Table.delete(key)
TableDelete(table, key) == [id \in (DOMAIN table) \ {key} |-> table[id]]

\* where('podcastId').equals(podcastId).delete()
DeleteWherePodcastId(table, podcastId) ==
    [id \in {i \in DOMAIN table : table[i].podcastId # podcastId} |-> table[id]]

\* getPodcasts: toArray(), in primary key order.
RECURSIVE KeysAsc(_)
KeysAsc(S) ==
    IF S = {} THEN <<>>
    ELSE LET m == CHOOSE x \in S : \A y \in S : x <= y
         IN  <<m>> \o KeysAsc(S \ {m})

GetPodcasts ==
    LET ks == KeysAsc(DOMAIN podcasts)
    IN  [i \in 1..Len(ks) |-> podcasts[ks[i]]]

\* getPodcast(feedUrl): first record under the unique index, or undefined.
GetPodcast(f) ==
    IF FeedUrlStored(podcasts, f)
    THEN podcasts[CHOOSE id \in DOMAIN podcasts : podcasts[id].feedUrl = f]
    ELSE [id |-> Undefined]

\* getEpisodes(podcastId): where('podcastId').equals(id).reverse().sortBy('pubDate'):
\* pubDate descending; equal dates keep the reversed index order (key descending).
Later(a, b) == a.pubDate > b.pubDate \/ (a.pubDate = b.pubDate /\ a.id > b.id)

RECURSIVE SortEpisodes(_)
SortEpisodes(S) ==
    IF S = {} THEN <<>>
    ELSE LET m == CHOOSE x \in S : \A y \in S \ {x} : Later(x, y)
         IN  <<m>> \o SortEpisodes(S \ {m})

EpisodesOf(table, podcastId) ==
    {table[id] : id \in {i \in DOMAIN table : table[i].podcastId = podcastId}}

GetEpisodes(podcastId) == SortEpisodes(EpisodesOf(episodes, podcastId))

\* IndexedDB runs transactions on one object store in the order of their
\* creation: a transaction on db.episodes waits for the bulkPuts created before it.
EpisodesReady == pendingPuts = <<>>

\* ------------------------------------------------------------ controller
\* mapPodcastIndexOrgEpisodeToStorage
mapPodcastIndexOrgEpisodeToStorage(e) ==
    [title |-> e.title, pubDate |-> e.pubDate, podcastIndexOrgId |-> e.id]


\* A findIndex that compares the stored local id with the directory's id.
FindIndexByLocalId(storedEpisodes, episode) ==
    LET hits == {i \in 1..Len(storedEpisodes) : Get(storedEpisodes[i], "id") = episode.id}
    IN  IF hits = {} THEN 0 ELSE CHOOSE i \in hits : \A j \in hits : i <= j

\* findIndex(storedEpisode => storedEpisode.podcastIndexOrgId === episode.id)
FindIndex(storedEpisodes, episode) ==
    LET hits == {i \in 1..Len(storedEpisodes) :
                    storedEpisodes[i].podcastIndexOrgId = episode.id}
    IN  IF hits = {} THEN 0 ELSE CHOOSE i \in hits : \A j \in hits : i <= j

\* A forEach that replaces the match by the mapped episode instead of overlaying it.
ReconcileOneReplacing(storedEpisodes, episode, podcastId) ==
    LET matchIndex == FindIndex(storedEpisodes, episode)
        fresh == Spread(mapPodcastIndexOrgEpisodeToStorage(episode), [podcastId |-> podcastId])
    IN  IF matchIndex >= 1
        THEN [storedEpisodes EXCEPT ![matchIndex] = Spread(fresh, [id |-> @.id])]
        ELSE Append(storedEpisodes, fresh)

\* One round of updatePodcasts' forEach: a match is overlaid in place, anything
\* else is pushed, tagged with the id of the podcast of the loop.
ReconcileOne(storedEpisodes, episode, podcastId) ==
    LET matchIndex == FindIndex(storedEpisodes, episode)
    IN  IF matchIndex >= 1
        THEN [storedEpisodes EXCEPT ![matchIndex] =
                 Spread(@, mapPodcastIndexOrgEpisodeToStorage(episode))]
        ELSE Append(storedEpisodes,
                    Spread(mapPodcastIndexOrgEpisodeToStorage(episode),
                           [podcastId |-> podcastId]))

RECURSIVE Reconcile(_, _, _)
Reconcile(storedEpisodes, remoteEpisodes, podcastId) ==
    IF remoteEpisodes = <<>> THEN storedEpisodes
    ELSE Reconcile(ReconcileOne(storedEpisodes, Head(remoteEpisodes), podcastId),
                   Tail(remoteEpisodes), podcastId)

\* ------------------------------------------------------------ addPodcast
IdleAdd == [pc |-> "idle", feedUrl |-> Undefined, podcastId |-> Undefined,
            error |-> "none"]

\* The record addPodcast inserts: {...podcast, status: 'new'}.
NewPodcast(f) == [feedUrl |-> f, status |-> "new"]

\* A store whose feedUrl index is not unique.
InsertPodcastUnchecked(st, t, f) ==
    LET added == TableAdd(st.podcasts, st.seq, [feedUrl |-> f, status |-> "new"])
    IN  [podcasts |-> added.table, seq |-> added.seq,
         adds |-> [st.adds EXCEPT ![t] = [pc |-> "getPodcastByFeedUrl", feedUrl |-> f,
                                          podcastId |-> added.seq, error |-> "none"]]]

\* Lines 39-42, for one call: the insert is created when addPodcast is called.
\* st = [podcasts, seq, adds].
InsertPodcast(st, t, f) ==
    IF FeedUrlStored(st.podcasts, f)
    THEN [st EXCEPT !.adds[t] = [IdleAdd EXCEPT !.pc = "failed", !.feedUrl = f,
                                                !.error = "ConstraintError"]]
    ELSE LET added == TableAdd(st.podcasts, st.seq, NewPodcast(f))
         IN  [podcasts |-> added.table, seq |-> added.seq,
              adds |-> [st.adds EXCEPT ![t] =
                           [IdleAdd EXCEPT !.pc = "getPodcastByFeedUrl", !.feedUrl = f,
                                           !.podcastId = added.seq]]]

IdleAdds == {t \in AddTasks : adds[t].pc = "idle"}
NextIdleAdd == CHOOSE t \in IdleAdds : \A o \in IdleAdds : t <= o

AddPodcast(f) ==
    /\ IdleAdds # {}
    /\ LET st == InsertPodcast([podcasts |-> podcasts, seq |-> podcastSeq, adds |-> adds],
                               NextIdleAdd, f)
       IN  /\ podcasts' = st.podcasts
           /\ podcastSeq' = st.seq
           /\ adds' = st.adds
    /\ UNCHANGED <<episodes, episodeSeq, pendingPuts, remote, clock, batch, upds, dels>>

\* addPodcasts: podcasts.map(addPodcast) calls addPodcast for every entry, in
\* order, before anything is awaited; Promise.all collects the results.
RECURSIVE InsertPodcasts(_, _, _)
InsertPodcasts(st, tasks, list) ==
    IF list = <<>> THEN st
    ELSE InsertPodcasts(InsertPodcast(st, Head(tasks), Head(list)), Tail(tasks), Tail(list))

AddPodcasts(list) ==
    /\ batch = {}
    /\ Len(list) <= Cardinality(IdleAdds)
    /\ LET tasks == SubSeq(KeysAsc(IdleAdds), 1, Len(list))
           st == InsertPodcasts([podcasts |-> podcasts, seq |-> podcastSeq, adds |-> adds],
                                tasks, list)
       IN  /\ podcasts' = st.podcasts
           /\ podcastSeq' = st.seq
           /\ adds' = st.adds
           /\ batch' = Range(tasks)
    /\ UNCHANGED <<episodes, episodeSeq, pendingPuts, remote, clock, upds, dels>>

\* An update of the metadata that marks the podcast processed at once.
FetchedChangesProcessed(podcastId, podcastAtPodcastindexOrg) ==
    [id |-> podcastId, title |-> podcastAtPodcastindexOrg.title, status |-> "processed"]

\* Lines 44-54: getPodcastByFeedUrl resolves, and the continuation creates the
\* update of the podcast with what it returned ...
FetchedChanges(podcastId, podcastAtPodcastindexOrg) ==
    [id |-> podcastId, title |-> podcastAtPodcastindexOrg.title]

AddUpdatePodcast(t) ==
    /\ adds[t].pc = "getPodcastByFeedUrl"
    /\ podcasts' = TableUpdate(podcasts, adds[t].podcastId,
                               FetchedChanges(adds[t].podcastId, RemotePodcast(adds[t].feedUrl)))
    /\ adds' = [adds EXCEPT ![t].pc = "getEpisodes"]
    /\ UNCHANGED <<episodes, podcastSeq, episodeSeq, pendingPuts, remote, clock,
                   batch, upds, dels>>

\* ... or it rejects, and so may getEpisodes of line 56: addPodcast rejects
\* with that error, and nothing is undone.
RemoteFailure(a) == [a EXCEPT !.pc = "failed", !.error = "RemoteError"]

\* A failure handler that takes the inserted podcast back.
AddRemoteFailsRollingBack(t) ==
    /\ adds[t].pc \in {"getPodcastByFeedUrl", "getEpisodes"}
    /\ adds' = [adds EXCEPT ![t] = RemoteFailure(adds[t])]
    /\ podcasts' = TableDelete(podcasts, adds[t].podcastId)
    /\ UNCHANGED <<episodes, podcastSeq, episodeSeq, pendingPuts, remote, clock,
                   batch, upds, dels>>

AddRemoteFails(t) ==
    /\ adds[t].pc \in {"getPodcastByFeedUrl", "getEpisodes"}
    /\ adds' = [adds EXCEPT ![t] = RemoteFailure(adds[t])]
    /\ UNCHANGED <<podcasts, episodes, podcastSeq, episodeSeq, pendingPuts, remote, clock,
                   batch, upds, dels>>

\* Lines 56-63: getEpisodes resolves, and the continuation puts the mapped
\* episodes, each tagged with the new podcast's id.
EpisodesToAdd(fetched, podcastId) ==
    [i \in 1..Len(fetched) |->
        Spread(mapPodcastIndexOrgEpisodeToStorage(fetched[i]), [podcastId |-> podcastId])]

AddPutEpisodes(t) ==
    /\ adds[t].pc = "getEpisodes"
    /\ EpisodesReady
    /\ LET put == TableBulkPut(episodes, episodeSeq,
                               EpisodesToAdd(RemoteEpisodes(adds[t].feedUrl), adds[t].podcastId))
       IN  /\ episodes' = put.table
           /\ episodeSeq' = put.seq
    /\ adds' = [adds EXCEPT ![t].pc = "markProcessed"]
    /\ UNCHANGED <<podcasts, podcastSeq, pendingPuts, remote, clock, batch, upds, dels>>

\* The final update without the stamp of the fetch.
ProcessedChangesNoStamp(podcastId) == [id |-> podcastId, status |-> "processed"]

\* Lines 65-69
ProcessedChanges(podcastId) ==
    [id |-> podcastId, status |-> "processed", podcastIndexOrgLastEpisodeFetch |-> clock]

\* An addPodcasts that is all-or-nothing: no entry is completed once another failed.
AddMarkProcessedAllOrNothing(t) ==
    /\ adds[t].pc = "markProcessed"
    /\ t \in batch => \A o \in batch : adds[o].pc # "failed"
    /\ podcasts' = TableUpdate(podcasts, adds[t].podcastId, ProcessedChanges(adds[t].podcastId))
    /\ adds' = [adds EXCEPT ![t].pc = "done"]
    /\ UNCHANGED <<episodes, podcastSeq, episodeSeq, pendingPuts, remote, clock,
                   batch, upds, dels>>

AddMarkProcessed(t) ==
    /\ adds[t].pc = "markProcessed"
    /\ podcasts' = TableUpdate(podcasts, adds[t].podcastId, ProcessedChanges(adds[t].podcastId))
    /\ adds' = [adds EXCEPT ![t].pc = "done"]
    /\ UNCHANGED <<episodes, podcastSeq, episodeSeq, pendingPuts, remote, clock,
                   batch, upds, dels>>

\* ------------------------------------------------------ deletePodcastById
IdleDel == [pc |-> "idle", podcastId |-> Undefined]

\* Line 128 of the store: the episodes go first ...
DeletePodcastById(d, podcastId) ==
    /\ dels[d].pc = "idle"
    /\ \A o \in DelTasks : o < d => dels[o].pc # "idle"
    /\ EpisodesReady
    /\ episodes' = DeleteWherePodcastId(episodes, podcastId)
    /\ dels' = [dels EXCEPT ![d] = [pc |-> "deletePodcast", podcastId |-> podcastId]]
    /\ UNCHANGED <<podcasts, podcastSeq, episodeSeq, pendingPuts, remote, clock,
                   adds, batch, upds>>

\* ... line 129: then the podcast, in a transaction of its own.
DeletePodcastRecord(d) ==
    /\ dels[d].pc = "deletePodcast"
    /\ podcasts' = TableDelete(podcasts, dels[d].podcastId)
    /\ dels' = [dels EXCEPT ![d].pc = "done"]
    /\ UNCHANGED <<episodes, podcastSeq, episodeSeq, pendingPuts, remote, clock,
                   adds, batch, upds>>

\* --------------------------------------------------------- updatePodcasts
IdleUpd == [pc |-> "idle", podcasts |-> <<>>, key |-> 1, episodes |-> <<>>,
            podcast |-> Undefined, storedEpisodes |-> <<>>]

\* The loop of lines 118-151 reads podcast.feedUrl and podcast.id only.
LoopPodcast(p) == [id |-> p.id, feedUrl |-> p.feedUrl]

\* for(let key in podcasts): the next key, or the end of updatePodcasts.
NextKey(u) ==
    IF u.key < Len(u.podcasts)
    THEN [u EXCEPT !.pc = "getEpisodesRemote", !.key = u.key + 1,
                   !.episodes = <<>>, !.podcast = Undefined, !.storedEpisodes = <<>>]
    ELSE [IdleUpd EXCEPT !.pc = "done"]

\* Line 116
UpdatePodcasts(u) ==
    /\ upds[u].pc = "idle"
    /\ \A o \in UpdTasks : o < u => upds[o].pc # "idle"
    /\ LET all == GetPodcasts
       IN  upds' = [upds EXCEPT ![u] =
                IF all = <<>> THEN [IdleUpd EXCEPT !.pc = "done"]
                ELSE [IdleUpd EXCEPT !.pc = "getEpisodesRemote",
                                     !.podcasts = [i \in 1..Len(all) |-> LoopPodcast(all[i])]]]
    /\ UNCHANGED <<podcasts, episodes, podcastSeq, episodeSeq, pendingPuts, remote, clock,
                   adds, batch, dels>>

\* Lines 123, 129 -> 155: the remote list arrives, and getEpisodes(feedUrl)
\* looks the podcast up by its feed URL ...
UpdGetEpisodesRemote(u) ==
    /\ upds[u].pc = "getEpisodesRemote"
    /\ LET feedUrl == upds[u].podcasts[upds[u].key].feedUrl
           podcast == GetPodcast(feedUrl)
       IN  upds' = [upds EXCEPT ![u].pc = "getEpisodes",
                                ![u].episodes = RemoteEpisodes(feedUrl),
                                ![u].podcast = podcast.id]
    /\ UNCHANGED <<podcasts, episodes, podcastSeq, episodeSeq, pendingPuts, remote, clock,
                   adds, batch, dels>>

\* No catch: the rejection of the fetch ends updatePodcasts.
Rethrow(u) == [IdleUpd EXCEPT !.pc = "failed"]

\* ... lines 125-127: or the fetch fails, and the loop goes on (continue).
SkipPodcast(u) == NextKey(u)

UpdRemoteFails(u) ==
    /\ upds[u].pc = "getEpisodesRemote"
    /\ upds' = [upds EXCEPT ![u] = SkipPodcast(upds[u])]
    /\ UNCHANGED <<podcasts, episodes, podcastSeq, episodeSeq, pendingPuts, remote, clock,
                   adds, batch, dels>>

\* Line 157: the stored episodes of the podcast found; none when none was found.
UpdGetEpisodes(u) ==
    /\ upds[u].pc = "getEpisodes"
    /\ upds[u].podcast # Undefined => EpisodesReady
    /\ upds' = [upds EXCEPT ![u].pc = "putEpisodes",
                            ![u].storedEpisodes =
                                IF upds[u].podcast # Undefined
                                THEN GetEpisodes(upds[u].podcast) ELSE <<>>]
    /\ UNCHANGED <<podcasts, episodes, podcastSeq, episodeSeq, pendingPuts, remote, clock,
                   adds, batch, dels>>

\* Lines 131-150: reconcile, then putEpisodes, which nobody awaits.
Reconciled(u) == Reconcile(u.storedEpisodes, u.episodes, u.podcasts[u.key].id)

UpdPutEpisodes(u) ==
    /\ upds[u].pc = "putEpisodes"
    /\ pendingPuts' = Append(pendingPuts, Reconciled(upds[u]))
    /\ upds' = [upds EXCEPT ![u] = NextKey(upds[u])]
    /\ UNCHANGED <<podcasts, episodes, podcastSeq, episodeSeq, remote, clock,
                   adds, batch, dels>>

\* A write-back that replaces the stored episodes of the podcasts in the list.
RunPutEpisodesReplacing ==
    /\ pendingPuts # <<>>
    /\ LET recs == Head(pendingPuts)
           kept == {id \in DOMAIN episodes :
                       \A k \in 1..Len(recs) : recs[k].podcastId # episodes[id].podcastId}
           put == TableBulkPut([id \in kept |-> episodes[id]], episodeSeq, recs)
       IN  /\ episodes' = put.table
           /\ episodeSeq' = put.seq
    /\ pendingPuts' = Tail(pendingPuts)
    /\ UNCHANGED <<podcasts, podcastSeq, remote, clock, adds, batch, upds, dels>>

\* The bulkPut of line 150 runs.
RunPutEpisodes ==
    /\ pendingPuts # <<>>
    /\ LET put == TableBulkPut(episodes, episodeSeq, Head(pendingPuts))
       IN  /\ episodes' = put.table
           /\ episodeSeq' = put.seq
    /\ pendingPuts' = Tail(pendingPuts)
    /\ UNCHANGED <<podcasts, podcastSeq, remote, clock, adds, batch, upds, dels>>

\* ----------------------------------------------- updateEpisodeCurrentTime
Positions == 0..MaxPosition

\* Lines 174-180: one update of the episode, stamped with the time of the call.
CurrentTimeChanges(episodeId, position, now) ==
    [id |-> episodeId, position |-> position, lastTimeListened |-> now]

UpdateEpisodeCurrentTime(episodeId, position) ==
    /\ clock < MaxClock
    /\ EpisodesReady
    /\ clock' = clock + 1
    /\ episodes' = TableUpdate(episodes, episodeId,
                               CurrentTimeChanges(episodeId, position, clock + 1))
    /\ UNCHANGED <<podcasts, podcastSeq, episodeSeq, pendingPuts, remote, adds, batch,
                   upds, dels>>

\* ------------------------------------------------------ the environment
\* The directory publishes: the episode list of one feed changes, and with
\* it the content version that stamps the metadata.
RemoteChanges(f, ids) ==
    /\ remote.ver < MaxVer
    /\ remote' = [ver |-> remote.ver + 1, eps |-> [remote.eps EXCEPT ![f] = ids]]
    /\ UNCHANGED <<podcasts, episodes, podcastSeq, episodeSeq, pendingPuts, clock,
                   adds, batch, upds, dels>>

\* ------------------------------------------------------- specification
NoHist == [call |-> 0, eps |-> <<>>, rem |-> <<>>, skipped |-> {}, again |-> FALSE]

NoAnswer == [op |-> "none"]

\* The latest updateEpisodeCurrentTime call, and whether it met a stored episode.
Played(episodeId, position) ==
    [op |-> "updateEpisodeCurrentTime", episodeId |-> episodeId, position |-> position,
     stored |-> episodeId \in DOMAIN episodes]

Init ==
    /\ podcasts = <<>>
    /\ episodes = <<>>
    /\ podcastSeq = 0
    /\ episodeSeq = 0
    /\ pendingPuts = <<>>
    /\ remote = [ver |-> 0, eps |-> [f \in FeedUrls |-> 1..(MaxRemoteId - 1)]]
    /\ clock = 0
    /\ adds = [t \in AddTasks |-> IdleAdd]
    /\ batch = {}
    /\ upds = [u \in UpdTasks |-> IdleUpd]
    /\ dels = [d \in DelTasks |-> IdleDel]
    /\ hist = NoHist
    /\ answer = NoAnswer

FeedLists == UNION {[1..n -> FeedUrls] : n \in 2..NumAdds}

\* The calls made so far, by the client and by the directory's publisher.
Calls ==
    Cardinality({t \in AddTasks : adds[t].pc # "idle"})
    + Cardinality({u \in UpdTasks : upds[u].pc # "idle"})
    + Cardinality({d \in DelTasks : dels[d].pc # "idle"})
    + clock + remote.ver

\* Any interleaving of up to MaxCalls calls: what the client calls and the
\* directory publishes, then what the event loop runs (the continuation of a
\* settled await, a store transaction nobody waits for).
Next ==
    \/ \E f \in FeedUrls :
         AddPodcast(f) /\ Calls' <= MaxCalls /\ UNCHANGED <<hist, answer>>
    \/ \E list \in FeedLists :
         AddPodcasts(list) /\ Calls' <= MaxCalls /\ UNCHANGED <<hist, answer>>
    \/ \E d \in DelTasks : \E id \in 1..podcastSeq :
         DeletePodcastById(d, id) /\ Calls' <= MaxCalls /\ UNCHANGED <<hist, answer>>
    \/ \E u \in UpdTasks :
         UpdatePodcasts(u) /\ Calls' <= MaxCalls /\ UNCHANGED <<hist, answer>>
    \/ \E id \in 1..episodeSeq : \E p \in Positions :
         /\ UpdateEpisodeCurrentTime(id, p)
         /\ Calls' <= MaxCalls
         /\ answer' = Played(id, p)
         /\ UNCHANGED hist
    \/ \E f \in FeedUrls : \E ids \in SUBSET RemoteIds :
         RemoteChanges(f, ids) /\ Calls' <= MaxCalls /\ UNCHANGED <<hist, answer>>
    \/ \E t \in AddTasks : AddUpdatePodcast(t) /\ UNCHANGED <<hist, answer>>
    \/ \E t \in AddTasks : AddRemoteFails(t) /\ UNCHANGED <<hist, answer>>
    \/ \E t \in AddTasks : AddPutEpisodes(t) /\ UNCHANGED <<hist, answer>>
    \/ \E t \in AddTasks : AddMarkProcessed(t) /\ UNCHANGED <<hist, answer>>
    \/ \E d \in DelTasks : DeletePodcastRecord(d) /\ UNCHANGED <<hist, answer>>
    \/ \E u \in UpdTasks : UpdGetEpisodesRemote(u) /\ UNCHANGED <<hist, answer>>
    \/ \E u \in UpdTasks : UpdRemoteFails(u) /\ UNCHANGED <<hist, answer>>
    \/ \E u \in UpdTasks : UpdGetEpisodes(u) /\ UNCHANGED <<hist, answer>>
    \/ \E u \in UpdTasks : UpdPutEpisodes(u) /\ UNCHANGED <<hist, answer>>
    \/ RunPutEpisodes /\ UNCHANGED <<hist, answer>>

Spec == Init /\ [][Next]_vars

\* ------------------------------------------------- the sequential client
\* A client that awaits every call before it makes the next one; the
\* directory changes between calls.  hist remembers the store and the
\* directory as the latest updatePodcasts call found them, and the podcasts
\* whose fetch failed in it.
Running ==
    \/ \E t \in AddTasks : adds[t].pc \notin {"idle", "done", "failed"}
    \/ \E u \in UpdTasks : upds[u].pc \notin {"idle", "done"}
    \/ \E d \in DelTasks : dels[d].pc \notin {"idle", "done"}

RECURSIVE RunAll(_, _, _)
RunAll(table, seq, puts) ==
    IF puts = <<>> THEN table
    ELSE LET put == TableBulkPut(table, seq, Head(puts))
         IN  RunAll(put.table, put.seq, Tail(puts))

\* The episodes a transaction created now will find.
VisibleEpisodes == RunAll(episodes, episodeSeq, pendingPuts)

SeqCall == ~Running /\ Calls < MaxSeqCalls

SeqNext ==
    \/ \E f \in FeedUrls : SeqCall /\ AddPodcast(f) /\ hist' = NoHist /\ UNCHANGED answer
    \/ \E list \in FeedLists :
         SeqCall /\ Calls + Len(list) <= MaxSeqCalls /\ AddPodcasts(list) /\ hist' = NoHist /\ UNCHANGED answer
    \/ \E d \in DelTasks : \E id \in 1..podcastSeq :
         SeqCall /\ DeletePodcastById(d, id) /\ hist' = NoHist /\ UNCHANGED answer
    \/ \E u \in UpdTasks :
         /\ SeqCall
         /\ UpdatePodcasts(u)
         /\ hist' = [call |-> u, eps |-> VisibleEpisodes, rem |-> remote, skipped |-> {},
                     again |-> hist.call # 0 /\ hist.skipped = {}]
         /\ UNCHANGED answer
    \/ \E id \in 1..episodeSeq : \E p \in Positions :
         SeqCall /\ UpdateEpisodeCurrentTime(id, p) /\ hist' = NoHist /\ UNCHANGED answer
    \/ \E f \in FeedUrls : \E ids \in SUBSET RemoteIds :
         SeqCall /\ RemoteChanges(f, ids) /\ hist' = NoHist /\ UNCHANGED answer
    \/ \E t \in AddTasks : AddUpdatePodcast(t) /\ UNCHANGED <<hist, answer>>
    \/ \E t \in AddTasks : AddRemoteFails(t) /\ UNCHANGED <<hist, answer>>
    \/ \E t \in AddTasks : AddPutEpisodes(t) /\ UNCHANGED <<hist, answer>>
    \/ \E t \in AddTasks : AddMarkProcessed(t) /\ UNCHANGED <<hist, answer>>
    \/ \E d \in DelTasks : DeletePodcastRecord(d) /\ UNCHANGED <<hist, answer>>
    \/ \E u \in UpdTasks : UpdGetEpisodesRemote(u) /\ UNCHANGED <<hist, answer>>
    \/ \E u \in UpdTasks :
         /\ UpdRemoteFails(u)
         /\ hist' = [hist EXCEPT !.skipped = @ \cup {upds[u].podcasts[upds[u].key].id}]
         /\ UNCHANGED answer
    \/ \E u \in UpdTasks : UpdGetEpisodes(u) /\ UNCHANGED <<hist, answer>>
    \/ \E u \in UpdTasks : UpdPutEpisodes(u) /\ UNCHANGED <<hist, answer>>
    \/ RunPutEpisodes /\ UNCHANGED <<hist, answer>>

SeqSpec == Init /\ [][SeqNext]_vars

\* ------------------------------------------------------ the event loop
\* Adding podcasts while refreshes run, nothing deleted and the directory
\* unchanged.  A settled await is resumed, a created transaction runs, a
\* request to the directory is answered or fails: every step that can be
\* taken is taken in the end.
RunAdd(t) ==
    \/ AddUpdatePodcast(t)
    \/ AddRemoteFails(t)
    \/ AddPutEpisodes(t)
    \/ AddMarkProcessed(t)

RunUpdate(u) ==
    \/ UpdGetEpisodesRemote(u)
    \/ UpdRemoteFails(u)
    \/ UpdGetEpisodes(u)
    \/ UpdPutEpisodes(u)

FairNext ==
    \/ \E f \in FeedUrls :
         AddPodcast(f) /\ Calls' <= MaxFairCalls /\ UNCHANGED <<hist, answer>>
    \/ \E list \in FeedLists :
         AddPodcasts(list) /\ Calls' <= MaxFairCalls /\ UNCHANGED <<hist, answer>>
    \/ \E u \in UpdTasks :
         UpdatePodcasts(u) /\ Calls' <= MaxFairCalls /\ UNCHANGED <<hist, answer>>
    \/ \E t \in AddTasks : AddUpdatePodcast(t) /\ UNCHANGED <<hist, answer>>
    \/ \E t \in AddTasks : AddRemoteFails(t) /\ UNCHANGED <<hist, answer>>
    \/ \E t \in AddTasks : AddPutEpisodes(t) /\ UNCHANGED <<hist, answer>>
    \/ \E t \in AddTasks : AddMarkProcessed(t) /\ UNCHANGED <<hist, answer>>
    \/ \E u \in UpdTasks : UpdGetEpisodesRemote(u) /\ UNCHANGED <<hist, answer>>
    \/ \E u \in UpdTasks : UpdRemoteFails(u) /\ UNCHANGED <<hist, answer>>
    \/ \E u \in UpdTasks : UpdGetEpisodes(u) /\ UNCHANGED <<hist, answer>>
    \/ \E u \in UpdTasks : UpdPutEpisodes(u) /\ UNCHANGED <<hist, answer>>
    \/ RunPutEpisodes /\ UNCHANGED <<hist, answer>>

FairSpec ==
    /\ Init
    /\ [][FairNext]_vars
    /\ \A t \in AddTasks : WF_vars(RunAdd(t) /\ UNCHANGED <<hist, answer>>)
    /\ \A u \in UpdTasks : WF_vars(RunUpdate(u) /\ UNCHANGED <<hist, answer>>)
    /\ WF_vars(RunPutEpisodes /\ UNCHANGED <<hist, answer>>)

\* ================================================================ claims
\* getPodcastById(id)
GetPodcastById(id) == IF id \in DOMAIN podcasts THEN podcasts[id] ELSE [id |-> Undefined]

\* addPodcastToEpisodes (lines 182-191): podcasts.find(p => p.id === episode.podcastId)
FindPodcast(all, podcastId) ==
    LET hits == {i \in 1..Len(all) : all[i].id = podcastId}
    IN  IF hits = {} THEN Undefined ELSE all[CHOOSE i \in hits : \A j \in hits : i <= j].id

AddPodcastToEpisodes(eps, all) ==
    {[episode |-> e.id, podcast |-> FindPodcast(all, e.podcastId)] : e \in eps}

AllEpisodes == {episodes[id] : id \in DOMAIN episodes}

\* ------------------------------------------------------------ the queries
Min(a, b) == IF a <= b THEN a ELSE b

\* The store's getAllEpisodes: where('pubDate').belowOrEqual(asOfPubDate)
\* .reverse().limit(count).toArray(): the pubDate index from the top (equal
\* dates in descending key order), cut after count records.
GetAllEpisodesOldestFirst(count, asOfPubDate) ==
    LET all == SortEpisodes({e \in AllEpisodes : e.pubDate <= asOfPubDate})
        n == Len(all)
        k == Min(count, n)
    IN  [i \in 1..k |-> all[n + 1 - i]]

GetAllEpisodes(count, asOfPubDate) ==
    LET all == SortEpisodes({e \in AllEpisodes : e.pubDate <= asOfPubDate})
    IN  SubSeq(all, 1, Min(count, Len(all)))

\* The store's getEpisodesInProgress: where('position').aboveOrEqual(0)
\* .reverse().sortBy('lastTimeListened'): the records in the position index
\* from 0 up, read from the top (position, then key, descending), then
\* sorted by lastTimeListened, descending for a reversed collection; the
\* sort is stable.
ListenedEarlier(a, b) ==
    \/ a.lastTimeListened < b.lastTimeListened
    \/ /\ a.lastTimeListened = b.lastTimeListened
       /\ (a.position < b.position \/ (a.position = b.position /\ a.id < b.id))

ListenedLater(a, b) ==
    \/ a.lastTimeListened > b.lastTimeListened
    \/ /\ a.lastTimeListened = b.lastTimeListened
       /\ (a.position > b.position \/ (a.position = b.position /\ a.id > b.id))

RECURSIVE SortByLastTimeListened(_)
SortByLastTimeListened(S) ==
    IF S = {} THEN <<>>
    ELSE LET m == CHOOSE x \in S : \A y \in S \ {x} : ListenedLater(x, y)
         IN  <<m>> \o SortByLastTimeListened(S \ {m})

GetEpisodesInProgress ==
    SortByLastTimeListened({e \in AllEpisodes : Get(e, "position") >= 0})

\* addPodcastToEpisodes (lines 182-191), as the list it returns.
EpisodesWithPodcast(eps, all) ==
    [i \in 1..Len(eps) |-> Spread(eps[i], [podcast |-> FindPodcast(all, eps[i].podcastId)])]

\* The controller's getAllEpisodes (lines 160-165) and getEpisodesInProgress
\* (lines 167-172): the podcasts, then the episodes, then the join.
ControllerGetAllEpisodes(count, asOfPubDate) ==
    /\ EpisodesReady
    /\ answer' = [op |-> "getAllEpisodes", count |-> count, asOfPubDate |-> asOfPubDate,
                  result |-> EpisodesWithPodcast(GetAllEpisodes(count, asOfPubDate),
                                                 GetPodcasts)]
    /\ UNCHANGED <<podcasts, episodes, podcastSeq, episodeSeq, pendingPuts, remote, clock,
                   adds, batch, upds, dels, hist>>

ControllerGetEpisodesInProgress ==
    /\ EpisodesReady
    /\ answer' = [op |-> "getEpisodesInProgress",
                  result |-> EpisodesWithPodcast(GetEpisodesInProgress, GetPodcasts)]
    /\ UNCHANGED <<podcasts, episodes, podcastSeq, episodeSeq, pendingPuts, remote, clock,
                   adds, batch, upds, dels, hist>>

\* ------------------------------------------------- the querying client
\* The application opens a store kept from earlier sessions: the podcasts
\* processed, up to MaxStored episodes, some of them listened to before this
\* session (time 0).  Then it plays an episode and asks for the lists.
StoredPodcast(id) ==
    [id |-> id, feedUrl |-> id, status |-> "processed", title |-> 0,
     podcastIndexOrgLastEpisodeFetch |-> 0]

Unlistened(id, podcastId, pubDate) ==
    [id |-> id, podcastId |-> podcastId, title |-> 0, pubDate |-> pubDate,
     podcastIndexOrgId |-> pubDate]

Listened(id, podcastId, pubDate, position) ==
    Spread(Unlistened(id, podcastId, pubDate),
           [position |-> position, lastTimeListened |-> 0])

StoredEpisodes(id) ==
    {Unlistened(id, f, d) : f \in FeedUrls, d \in RemoteIds}
    \cup {Listened(id, f, d, p) : f \in FeedUrls, d \in RemoteIds, p \in Positions}

QueryInit ==
    /\ podcasts = [id \in FeedUrls |-> StoredPodcast(id)]
    /\ podcastSeq = NumFeeds
    /\ \E n \in 0..MaxStored :
          /\ episodeSeq = n
          /\ episodes \in [1..n -> UNION {StoredEpisodes(id) : id \in 1..n}]
          /\ \A id \in 1..n : episodes[id].id = id
    /\ pendingPuts = <<>>
    /\ remote = [ver |-> 0, eps |-> [f \in FeedUrls |-> {}]]
    /\ clock = 0
    /\ adds = [t \in AddTasks |-> IdleAdd]
    /\ batch = {}
    /\ upds = [u \in UpdTasks |-> IdleUpd]
    /\ dels = [d \in DelTasks |-> IdleDel]
    /\ hist = NoHist
    /\ answer = NoAnswer

QueryNext ==
    \/ \E id \in 1..episodeSeq : \E p \in Positions :
         /\ UpdateEpisodeCurrentTime(id, p)
         /\ answer' = Played(id, p)
         /\ UNCHANGED hist
    \/ \E count \in 0..MaxCount : \E asOfPubDate \in 0..MaxRemoteId :
         ControllerGetAllEpisodes(count, asOfPubDate)
    \/ ControllerGetEpisodesInProgress

QuerySpec == QueryInit /\ [][QueryNext]_vars

\* ---- C1
\* C1: once an addPodcast whose two remote fetches succeeded has completed,
\* getPodcast(P.feedUrl) returns P's record (as long as P is stored, that is,
\* nobody has deleted it), its status is 'processed' and its
\* podcastIndexOrgLastEpisodeFetch is set.
C1_AddedPodcastIsProcessed ==
    \A t \in AddTasks :
        (adds[t].pc = "done" /\ adds[t].podcastId \in DOMAIN podcasts) =>
            LET found == GetPodcast(adds[t].feedUrl)
            IN  /\ found.id = adds[t].podcastId
                /\ found.status = "processed"
                /\ Get(found, "podcastIndexOrgLastEpisodeFetch") # Undefined

C1_Witness ==
    \E t \in AddTasks :
        /\ adds[t].pc = "done"
        /\ adds[t].podcastId \in DOMAIN podcasts
        /\ GetPodcast(adds[t].feedUrl).status = "processed"

\* ---- C2
FeedUrlUnique ==
    \A i, j \in DOMAIN podcasts : podcasts[i].feedUrl = podcasts[j].feedUrl => i = j

\* The addPodcast calls made in this step for feed URL f, and those that got a record.
CalledWith(f) ==
    {t \in AddTasks : adds[t].pc = "idle" /\ adds'[t].pc # "idle" /\ adds'[t].feedUrl = f}

Inserted(f) == {t \in CalledWith(f) : adds'[t].pc # "failed"}

AddRespectsUniqueness ==
    \A f \in FeedUrls :
        CalledWith(f) # {} =>
            /\ FeedUrlStored(podcasts, f) => Inserted(f) = {}
            /\ ~FeedUrlStored(podcasts, f) => Cardinality(Inserted(f)) = 1
            /\ \A t \in CalledWith(f) \ Inserted(f) :
                  /\ adds'[t].error = "ConstraintError"
                  /\ adds'[t].podcastId = Undefined
            /\ \A t \in Inserted(f) :
                  /\ adds'[t].podcastId \notin DOMAIN podcasts
                  /\ adds'[t].podcastId \in DOMAIN podcasts'
                  /\ podcasts'[adds'[t].podcastId].feedUrl = f
            /\ {id \in DOMAIN podcasts' : podcasts'[id].feedUrl = f} =
                  {id \in DOMAIN podcasts : podcasts[id].feedUrl = f}
                  \cup {adds'[t].podcastId : t \in Inserted(f)}

\* C2: no two stored podcasts share a feed URL, in every reachable state; an
\* addPodcast for a stored feed URL fails with the constraint error and
\* inserts nothing, also among the calls one addPodcasts makes together.
C2_FeedUrlUnique == [](FeedUrlUnique) /\ [][AddRespectsUniqueness]_vars

C2_Witness ==
    \E t, o \in batch :
        /\ adds[t].pc = "failed"
        /\ adds[t].error = "ConstraintError"
        /\ adds[o].feedUrl = adds[t].feedUrl
        /\ adds[o].podcastId \in DOMAIN podcasts

\* ---- C3
\* C3: after deletePodcastById(id) has completed, getPodcastById(id) returns
\* undefined and no stored episode has podcastId = id, from then on,
\* whatever call was in progress.
C3_DeletedStaysDeleted ==
    \A d \in DelTasks :
        dels[d].pc = "done" =>
            /\ GetPodcastById(dels[d].podcastId).id = Undefined
            /\ EpisodesOf(episodes, dels[d].podcastId) = {}

\* ---- C4
\* C4: every stored episode's podcastId is the id of a stored podcast, so the
\* join of getAllEpisodes and getEpisodesInProgress finds a podcast for
\* every episode.
C4_ReferentialIntegrity ==
    /\ \A id \in DOMAIN episodes : episodes[id].podcastId \in DOMAIN podcasts
    /\ \A joined \in AddPodcastToEpisodes(AllEpisodes, GetPodcasts) :
          joined.podcast # Undefined

\* ---- the latest updatePodcasts call of the sequential client
\* It has returned and its writes have run; nothing was called since.
UpdateSettled ==
    /\ hist.call # 0
    /\ upds[hist.call].pc = "done"
    /\ pendingPuts = <<>>

DirIds(eps) == {e.podcastIndexOrgId : e \in eps}

Before(podcastId) == EpisodesOf(hist.eps, podcastId)
After(podcastId) == EpisodesOf(episodes, podcastId)

\* The remote list of podcast p as the call fetched it.
FetchedIds(p) == hist.rem.eps[p.feedUrl]
FetchedEpisode(e) == [id |-> e, title |-> hist.rem.ver, pubDate |-> e]

\* The podcasts the call went through and fetched the list of.
Refreshed == {id \in DOMAIN podcasts : id \notin hist.skipped}

\* ---- C5
\* C5: an updatePodcasts() called after a first one has returned, the remote
\* lists unchanged, leaves the stored episodes as it found them: the same
\* records under the same local ids, none added.
C5_UpdateTwiceIsIdempotent ==
    (UpdateSettled /\ hist.again) =>
        /\ episodes = hist.eps
        /\ \A id \in DOMAIN podcasts :
              Cardinality(After(id)) = Cardinality(DirIds(After(id)))

C5_Witness ==
    /\ UpdateSettled
    /\ hist.again
    /\ \E id \in DOMAIN podcasts : Cardinality(After(id)) = 2

\* ---- C6
\* C6: for a podcast whose fetch succeeded, updatePodcasts() leaves stored
\* ids = (stored before) union (remote); an episode without a remote match is
\* unchanged, a matched one is the old record overlaid with the remote
\* metadata under the same local id, and every unmatched remote episode is
\* exactly one new record with the podcast's local id.
C6_UpdateReconciles ==
    UpdateSettled =>
        \A id \in Refreshed :
            LET rids == FetchedIds(podcasts[id])
                fresh == rids \ DirIds(Before(id))
            IN  /\ DirIds(After(id)) = DirIds(Before(id)) \cup rids
                /\ \A b \in Before(id) :
                      /\ b.id \in DOMAIN episodes
                      /\ b.podcastIndexOrgId \notin rids => episodes[b.id] = b
                      /\ b.podcastIndexOrgId \in rids =>
                            episodes[b.id] =
                                Spread(b, mapPodcastIndexOrgEpisodeToStorage(
                                              FetchedEpisode(b.podcastIndexOrgId)))
                /\ \A r \in fresh :
                      /\ Cardinality({a \in After(id) : a.podcastIndexOrgId = r}) = 1
                      /\ \A a \in After(id) :
                            a.podcastIndexOrgId = r =>
                                /\ a.id \notin DOMAIN hist.eps
                                /\ a.podcastId = id
                                /\ a.title = hist.rem.ver
                /\ Cardinality(After(id)) = Cardinality(Before(id)) + Cardinality(fresh)

\* Stored without a match, stored with a match, and new, in one refresh.
C6_Witness ==
    /\ UpdateSettled
    /\ \E id \in Refreshed :
          /\ DirIds(Before(id)) \ FetchedIds(podcasts[id]) # {}
          /\ DirIds(Before(id)) \cap FetchedIds(podcasts[id]) # {}
          /\ FetchedIds(podcasts[id]) \ DirIds(Before(id)) # {}

\* ---- C7
Matched(id) == {b \in Before(id) : b.podcastIndexOrgId \in FetchedIds(podcasts[id])}

\* C7: an episode refreshed by updatePodcasts() keeps its position, its
\* lastTimeListened, its finished flag, its local id and its podcastId;
\* the metadata of the remote payload replace the stored ones.
C7_RefreshKeepsUserState ==
    UpdateSettled =>
        \A id \in Refreshed : \A b \in Matched(id) :
            /\ b.id \in DOMAIN episodes
            /\ episodes[b.id].id = b.id
            /\ episodes[b.id].podcastId = b.podcastId
            /\ Get(episodes[b.id], "position") = Get(b, "position")
            /\ Get(episodes[b.id], "lastTimeListened") = Get(b, "lastTimeListened")
            /\ Get(episodes[b.id], "finished") = Get(b, "finished")
            /\ episodes[b.id].title = hist.rem.ver
            /\ episodes[b.id].pubDate = b.podcastIndexOrgId

\* A listened episode whose metadata the refresh has changed.
C7_Witness ==
    /\ UpdateSettled
    /\ \E id \in Refreshed : \E b \in Matched(id) :
          /\ Get(b, "position") # Undefined
          /\ Get(episodes[b.id], "position") # Undefined
          /\ episodes[b.id].title # b.title

\* ---- C8
\* C8: a failed fetch leaves that podcast's stored episodes as they were,
\* the podcasts whose fetch succeeds are reconciled and written all the same,
\* and updatePodcasts() returns normally.
C8_FetchFailureIsIsolated ==
    /\ \A u \in UpdTasks :
          upds[u].pc \in {"idle", "getEpisodesRemote", "getEpisodes", "putEpisodes", "done"}
    /\ hist.call # 0 =>
          \A id \in hist.skipped : EpisodesOf(VisibleEpisodes, id) = Before(id)
    /\ UpdateSettled =>
          \A id \in Refreshed : FetchedIds(podcasts[id]) \subseteq DirIds(After(id))

\* The first podcast's fetch failed, the second one got its new episode.
C8_Witness ==
    /\ UpdateSettled
    /\ \E i, j \in DOMAIN podcasts :
          /\ i < j
          /\ i \in hist.skipped
          /\ j \in Refreshed
          /\ DirIds(After(j)) # DirIds(Before(j))

\* ---- C9
\* The record of the podcast a failed addPodcast inserted, unless deleted since.
LeftBehind(t) ==
    /\ adds[t].pc = "failed"
    /\ adds[t].error = "RemoteError"
    /\ adds[t].podcastId \in DOMAIN podcasts

StaysNew ==
    \A t \in AddTasks :
        LeftBehind(t) =>
            /\ podcasts[adds[t].podcastId].status = "new"
            /\ podcasts[adds[t].podcastId].feedUrl = adds[t].feedUrl
            /\ Get(podcasts[adds[t].podcastId], "podcastIndexOrgLastEpisodeFetch") = Undefined

\* The step in which a remote call of addPodcast t rejects.
Fails(t) == adds[t].pc \notin {"idle", "failed"} /\ adds'[t].pc = "failed"

NoRollback ==
    \A t \in AddTasks :
        /\ Fails(t) =>
              /\ adds'[t].error = "RemoteError"
              /\ adds'[t].podcastId = adds[t].podcastId
              /\ podcasts' = podcasts
              /\ episodes' = episodes
              /\ pendingPuts' = pendingPuts
        /\ adds[t].pc = "failed" => adds'[t] = adds[t]
        /\ (adds'[t] # adds[t] /\ adds'[t].pc \notin {"markProcessed", "done"}) =>
              episodes' = episodes /\ episodeSeq' = episodeSeq

\* C9: a rejected getPodcastByFeedUrl or getEpisodes makes addPodcast fail
\* with that error; nothing is rolled back: the record stays, with status
\* 'new' (never 'processed'), and the call has stored no episode.
C9_FailedAddLeavesNewPodcast == [](StaysNew) /\ [][NoRollback]_vars

\* Failed after the metadata were written.
C9_Witness ==
    \E t \in AddTasks :
        /\ LeftBehind(t)
        /\ Get(podcasts[adds[t].podcastId], "title") # Undefined
        /\ podcasts[adds[t].podcastId].status = "new"

\* ---- C10
Launched(t) == t \in batch /\ adds[t].pc \notin {"idle", "failed", "done"}

OwnFailure(t) == adds[t].pc = "failed" /\ adds[t].error \in {"ConstraintError", "RemoteError"}

StoredProcessed(t) ==
    /\ adds[t].pc = "done"
    /\ adds[t].podcastId \in DOMAIN podcasts
    /\ podcasts[adds[t].podcastId].status = "processed"
    /\ remote.eps[adds[t].feedUrl] \subseteq DirIds(EpisodesOf(episodes, adds[t].podcastId))

\* C10: in addPodcasts(list), every entry either fails in a step of its own
\* or ends stored with status 'processed' and with its episodes, whichever
\* other entries fail, and whenever.
C10_AddPodcastsEntriesAreIndependent ==
    \A t \in AddTasks :
        /\ Launched(t) ~> (OwnFailure(t) \/ StoredProcessed(t))
        /\ [](adds[t].pc = "done" => StoredProcessed(t))

\* One entry has failed, another is processed.
C10_Witness ==
    \E t, o \in batch :
        /\ adds[t].pc = "failed"
        /\ StoredProcessed(o)

\* ---- C11
\* Promise.all of line 73: rejected as soon as one entry has rejected,
\* fulfilled once every entry is fulfilled.
AddPodcastsRejected == \E t \in batch : adds[t].pc = "failed"

AddPodcastsFulfilled == batch # {} /\ \A t \in batch : adds[t].pc = "done"

AddPodcastsSettled == AddPodcastsRejected \/ AddPodcastsFulfilled

\* C11: when the result of addPodcasts(list) resolves or rejects, every
\* addPodcast it launched has finished (succeeded or failed), so none of them
\* writes to the store afterwards.
C11_AddPodcastsWaitsForAll ==
    AddPodcastsSettled => \A t \in batch : adds[t].pc \in {"done", "failed"}

\* ---- C12
\* The result of a query without the joined podcasts: the store's records.
StoreRecord(joined) == [k \in (DOMAIN joined) \ {"podcast"} |-> joined[k]]

\* C12: right after updateEpisodeCurrentTime(id, p) on a stored episode,
\* the episode has position p and lastTimeListened set and is in the result
\* of getEpisodesInProgress(); that result is exactly the stored episodes
\* with position >= 0, ordered by lastTimeListened descending.
C12_PositionAndInProgress ==
    /\ (answer.op = "updateEpisodeCurrentTime" /\ answer.episodeId \in DOMAIN episodes) =>
          /\ Get(episodes[answer.episodeId], "position") = answer.position
          /\ Get(episodes[answer.episodeId], "lastTimeListened") = clock
          /\ \E i \in 1..Len(GetEpisodesInProgress) :
                GetEpisodesInProgress[i].id = answer.episodeId
    /\ answer.op = "getEpisodesInProgress" =>
          /\ {StoreRecord(answer.result[i]) : i \in 1..Len(answer.result)} =
                {e \in AllEpisodes : Get(e, "position") >= 0}
          /\ \A i, j \in 1..Len(answer.result) :
                /\ answer.result[i].id = answer.result[j].id => i = j
                /\ i < j => answer.result[i].lastTimeListened >=
                               answer.result[j].lastTimeListened

\* The episode just played comes before one played earlier; a third was never played.
C12_Witness ==
    /\ answer.op = "getEpisodesInProgress"
    /\ Len(answer.result) = 2
    /\ answer.result[1].lastTimeListened > answer.result[2].lastTimeListened
    /\ answer.result[1].id < answer.result[2].id
    /\ Cardinality(AllEpisodes) = 3

\* ---- C13
\* C13: getAllEpisodes(count, asOfPubDate) returns at most count episodes,
\* each published at or before asOfPubDate, sorted by publish date
\* descending, and the most recent such: none left out is later than one
\* returned, and fewer than count are returned only when no more qualify.
C13_GetAllEpisodesPage ==
    answer.op = "getAllEpisodes" =>
        LET result == answer.result
            returned == {StoreRecord(result[i]) : i \in 1..Len(result)}
            qualifying == {e \in AllEpisodes : e.pubDate <= answer.asOfPubDate}
        IN  /\ Len(result) <= answer.count
            /\ returned \subseteq qualifying
            /\ Cardinality(returned) = Len(result)
            /\ \A i, j \in 1..Len(result) : i < j => result[i].pubDate >= result[j].pubDate
            /\ \A e \in qualifying \ returned : \A r \in returned : e.pubDate <= r.pubDate
            /\ Len(result) = Min(answer.count, Cardinality(qualifying))

\* A full page, with an older episode left out and a later one not qualifying.
C13_Witness ==
    /\ answer.op = "getAllEpisodes"
    /\ answer.count = 1
    /\ Len(answer.result) = 1
    /\ \E e \in AllEpisodes : e.pubDate < answer.result[1].pubDate
    /\ \E e \in AllEpisodes : e.pubDate > answer.asOfPubDate

\* ---- C14
\* new is old after a partial update of the record under key with changes:
\* the same keys, every other record as it was, the fields given changed to
\* the values given and the other fields kept.
PartialUpdate(old, new, key, changes) ==
    /\ DOMAIN new = DOMAIN old
    /\ \A id \in (DOMAIN old) \ {key} : new[id] = old[id]
    /\ key \in DOMAIN old =>
          /\ \A k \in DOMAIN changes : new[key][k] = changes[k]
          /\ \A k \in (DOMAIN old[key]) \ (DOMAIN changes) :
                k \in DOMAIN new[key] /\ new[key][k] = old[key][k]
          /\ DOMAIN new[key] = (DOMAIN old[key]) \cup (DOMAIN changes)

\* The steps in which addPodcast t updates its podcast, and the call of
\* updateEpisodeCurrentTime.
UpdatesArePartial ==
    /\ \A t \in AddTasks :
          /\ (adds[t].pc = "getPodcastByFeedUrl" /\ adds'[t].pc = "getEpisodes") =>
                PartialUpdate(podcasts, podcasts', adds[t].podcastId,
                              [id |-> adds[t].podcastId, title |-> remote.ver])
          /\ (adds[t].pc = "markProcessed" /\ adds'[t].pc = "done") =>
                PartialUpdate(podcasts, podcasts', adds[t].podcastId,
                              [id |-> adds[t].podcastId, status |-> "processed",
                               podcastIndexOrgLastEpisodeFetch |-> clock])
    /\ clock' # clock =>
          PartialUpdate(episodes, episodes', answer'.episodeId,
                        [id |-> answer'.episodeId, position |-> answer'.position,
                         lastTimeListened |-> clock'])

DeletedPodcastStaysDeleted ==
    \A d \in DelTasks : dels[d].pc = "done" => dels[d].podcastId \notin DOMAIN podcasts

\* C14: updatePodcast and updateEpisode change the fields given and keep
\* the others, and without a record under the id they change nothing and
\* create nothing: no update of an addPodcast brings a deleted podcast
\* back, no updateEpisodeCurrentTime a deleted episode.
C14_UpdatesArePartialAndNeverCreate ==
    [](DeletedPodcastStaysDeleted) /\ [][UpdatesArePartial]_vars

\* An addPodcast whose podcast was deleted has completed, and an episode
\* was played that was no longer stored.
C14_Witness ==
    /\ answer.op = "updateEpisodeCurrentTime"
    /\ ~answer.stored
    /\ answer.episodeId \notin DOMAIN episodes
    /\ \E t \in AddTasks : \E d \in DelTasks :
          /\ adds[t].pc = "done"
          /\ dels[d].pc = "done"
          /\ dels[d].podcastId = adds[t].podcastId

\* ---- C15
StatusChanges ==
    /\ \A id \in (DOMAIN podcasts') \ (DOMAIN podcasts) : podcasts'[id].status = "new"
    /\ \A id \in (DOMAIN podcasts') \cap (DOMAIN podcasts) :
          podcasts'[id].status # podcasts[id].status =>
              /\ podcasts[id].status = "new"
              /\ podcasts'[id].status = "processed"
              /\ \E t \in AddTasks :
                    /\ adds[t].podcastId = id
                    /\ adds[t].pc = "markProcessed"
                    /\ adds'[t].pc = "done"

\* The addPodcast of a processed podcast has written the metadata and has
\* gone past its putEpisodes: it has completed.
ProcessedIsComplete ==
    \A id \in DOMAIN podcasts :
        /\ podcasts[id].status \in {"new", "processed"}
        /\ podcasts[id].status = "processed" =>
              /\ Get(podcasts[id], "title") # Undefined
              /\ \E t \in AddTasks : adds[t].podcastId = id /\ adds[t].pc = "done"

\* C15: a podcast is created 'new', the only change of status is from
\* 'new' to 'processed', never back, and a stored 'processed' podcast has
\* its metadata written and the bulk insert of its addPodcast completed.
C15_StatusLifecycle == [](ProcessedIsComplete) /\ [][StatusChanges]_vars

\* One podcast processed while the addPodcast of another has put its episodes.
C15_Witness ==
    \E i, j \in DOMAIN podcasts :
        /\ podcasts[i].status = "processed"
        /\ podcasts[j].status = "new"
        /\ \E t \in AddTasks : adds[t].podcastId = j /\ adds[t].pc = "markProcessed"

\* ---- C16
\* The step is the first one of deletePodcastById(podcastId).
DeletesEpisodesOf(podcastId) ==
    \E d \in DelTasks :
        /\ dels[d].pc = "idle"
        /\ dels'[d].pc = "deletePodcast"
        /\ dels'[d].podcastId = podcastId

EpisodesOnlyGrow ==
    /\ \A id \in DOMAIN episodes :
          IF id \in DOMAIN episodes'
          THEN episodes'[id].id = id /\ episodes'[id].podcastId = episodes[id].podcastId
          ELSE DeletesEpisodesOf(episodes[id].podcastId)
    /\ \A podcastId \in (DOMAIN podcasts) \cap (DOMAIN podcasts') :
          ~DeletesEpisodesOf(podcastId) =>
              {e.id : e \in EpisodesOf(episodes, podcastId)} \subseteq
                  {e.id : e \in EpisodesOf(episodes', podcastId)}

\* C16: the local ids of the episodes stored for a podcast only grow while
\* addPodcast, updatePodcasts and updateEpisodeCurrentTime run; an episode
\* record goes away only in deletePodcastById of its podcast.
C16_EpisodesNeverDeletedIndividually == [][EpisodesOnlyGrow]_vars

\* Added, refreshed and played: the episodes are all there.
C16_Witness ==
    /\ pendingPuts = <<>>
    /\ \E u \in UpdTasks : upds[u].pc = "done"
    /\ answer.op = "updateEpisodeCurrentTime"
    /\ answer.stored
    /\ answer.episodeId \in DOMAIN episodes
    /\ Cardinality(EpisodesOf(episodes, episodes[answer.episodeId].podcastId)) >= 2
    /\ episodeSeq > Cardinality(DOMAIN episodes)

\* ---- C17
\* C17: when updatePodcasts() completes, the bulk upsert of the reconciled
\* list of every podcast whose fetch succeeded has been done (here: for the
\* only updatePodcasts() called so far, which the client awaited).
C17_UpdateAwaitsItsWrites ==
    \A u \in UpdTasks :
        (/\ hist.call = u
         /\ upds[u].pc = "done"
         /\ \A o \in UpdTasks \ {u} : upds[o].pc = "idle") => pendingPuts = <<>>

\* ---- C18
\* C18: an updateEpisodeCurrentTime(id, p) on a stored episode is not lost
\* to a refresh: once every updatePodcasts() has finished and its writes
\* have run, the episode (if still stored) has position p and the
\* lastTimeListened of that call.
C18_NoLostPlaybackUpdate ==
    (/\ answer.op = "updateEpisodeCurrentTime"
     /\ answer.stored
     /\ answer.episodeId \in DOMAIN episodes
     /\ \A u \in UpdTasks : upds[u].pc \in {"idle", "done"}
     /\ pendingPuts = <<>>) =>
        /\ Get(episodes[answer.episodeId], "position") = answer.position
        /\ Get(episodes[answer.episodeId], "lastTimeListened") = clock

\* ---- C19
\* C19: no two stored episodes of one podcast have the same directory id
\* (the remote lists never repeat an id), whatever the interleaving of
\* addPodcast, addPodcasts and updatePodcasts calls.
C19_DirectoryIdUniquePerPodcast ==
    \A a, b \in AllEpisodes :
        (a.podcastId = b.podcastId /\ a.podcastIndexOrgId = b.podcastIndexOrgId) => a.id = b.id

\* ---- C20
\* The list updatePodcasts call u hands to putEpisodes for the podcast of its loop.
WritesOwnEpisodes(u) ==
    \A i \in 1..Len(Reconciled(upds[u])) :
        Reconciled(upds[u])[i].podcastId = upds[u].podcasts[upds[u].key].id

UpdateFrame ==
    \A u \in UpdTasks :
        upds'[u] # upds[u] =>
            /\ podcasts' = podcasts
            /\ upds[u].pc = "putEpisodes" => WritesOwnEpisodes(u)

\* C20: updatePodcasts() leaves every podcast record as it is, and the
\* episodes it writes while handling podcast P all have podcastId = P.id.
C20_UpdateChangesOwnEpisodesOnly == [][UpdateFrame]_vars

====
